---- MODULE Spec2Model ----
(***************************************************************************)
(* CleanNet (src/app.py): 5G node placement.  The script reads a region,   *)
(* population centers, a rural density and an AQI anchor, and on "Optimize *)
(* Nodes" generates candidate nodes, scores them and greedily selects up   *)
(* to 10 nodes that are more than 10 km apart.                             *)
(*                                                                         *)
(* Numbers.  The code computes in floating point; the model computes in    *)
(* integers:                                                               *)
(*  - coordinates are kilometres on a grid (6 km between latitudes, 8 km   *)
(*    between longitudes), and haversine is the distance between two grid  *)
(*    points in whole kilometres (rounded down).  On this grid no distance *)
(*    lies strictly between 9 and 10 or between 10 and 11, so the code's   *)
(*    comparisons "< 10" and "> 10" have exactly the outcome they have on  *)
(*    the unrounded distance, and grid points 6 km and 8 km apart on the   *)
(*    two axes are exactly 10 km apart;                                    *)
(*  - coverage_area = pi * 10**2 is 314 (rounded down);                    *)
(*  - the fields aqi and score of a result hold the code's value times     *)
(*    D_max and times 2 * D_max: the code divides by D_max and halves the  *)
(*    aqi, and D_max is fixed during a run, so the order of the scores is  *)
(*    the order of the code's scores.                                      *)
(***************************************************************************)
EXTENDS Integers, Sequences, FiniteSets, TLC

VARIABLES
    lat_min, lon_min, lat_max, lon_max,   \* region boundaries (lines 27-31)
    centers,                              \* list of urban centers (lines 36-43)
    rural_density,                        \* line 45
    aqi_base_lat, aqi_base_lon,           \* lines 49-50
    nodes,                                \* generated nodes (line 61)
    results,                              \* the list object bound to `results`
    selected_nodes,                       \* line 81
    remaining_nodes,                      \* the list object bound to `remaining_nodes`
    heap,                                 \* contents of the list objects
    rows,                                 \* table rows written (lines 97-98)
    pc                                    \* position of the script

vars == <<lat_min, lon_min, lat_max, lon_max, centers, rural_density,
          aqi_base_lat, aqi_base_lon, nodes, results, selected_nodes,
          remaining_nodes, heap, rows, pc>>

inputs == <<lat_min, lon_min, lat_max, lon_max, centers, rural_density,
            aqi_base_lat, aqi_base_lon>>

-----------------------------------------------------------------------------
(* Bounds of the model *)

\* number of nodes generated by one run (100 in the code, line 61)
NumNodes == 2
\* largest scored list handed to the selection loop in SelectSpec
MaxPool == 3
\* length of the long scored lists of SelectSpec (nodes 16 km apart in a row)
WidePool == 11

(* Program constants *)

\* while len(selected_nodes) < 10
TargetCount == 10
\* haversine(best_node, node) > 10
ExclusionRadiusKm == 10
\* haversine(node, center) < 10
CoverageRadiusKm == 10
\* aqi = max(30, 65 - (d / D_max) * 35)
AqiFloor == 30
AqiBase == 65
AqiSpread == 35
\* coverage_area = np.pi * 10**2, in whole km^2
CoverageArea == 314

LatGrid == {0, 6, 12}
LonGrid == {0, 8}
Populations == {1000, 2000}
RuralDensities == {165}
\* numbers of urban centers entered (the slider allows 1..5, line 35)
CenterCounts == {1, 2}

-----------------------------------------------------------------------------
(* Helpers *)

Abs(x) == IF x < 0 THEN -x ELSE x

Max(a, b) == IF a >= b THEN a ELSE b

\* great-circle distance in km between two points, rounded down (lines 9-16);
\* it lies between the larger of the two offsets and their sum
haversine(lat1, lon1, lat2, lon2) ==
    LET dlat == Abs(lat2 - lat1)
        dlon == Abs(lon2 - lon1)
        a == dlat * dlat + dlon * dlon
    IN  CHOOSE c \in Max(dlat, dlon)..(dlat + dlon) :
            c * c <= a /\ (c + 1) * (c + 1) > a

\* D_max (lines 52-55)
D_max ==
    Max(haversine(lat_min, lon_min, lat_max, lon_max),
        haversine(lat_min, lon_max, lat_max, lon_min))

Digit == <<"0", "1", "2", "3", "4", "5", "6", "7", "8", "9">>

RECURSIVE Decimal(_)
Decimal(n) == IF n < 10 THEN Digit[n + 1]
              ELSE Decimal(n \div 10) \o Digit[(n % 10) + 1]

\* the format spec 02d: decimal, zero-padded to width 2
Format02d(n) == IF n < 10 THEN "0" \o Decimal(n) ELSE Decimal(n)

-----------------------------------------------------------------------------
(* Scoring (lines 63-78) *)

\* faulty variant: the index as it is, not i + 1
NodeNameZeroBased(i) == "Node-" \o Format02d(i)
\* f"Node-{i+1:02d}", i the index of enumerate(nodes)
NodeName(i) == "Node-" \o Format02d(i + 1)

\* f"City {i+1}", the default of the name input
CityName(i) == "City " \o Decimal(i + 1)

\* lines 71-75: the rural value, unless a center is within 10 km; the first
\* such center in list order sets the coverage (break)
Coverage(node, cs, density) ==
    LET near == {j \in 1..Len(cs) :
                    haversine(node.lat, node.lon, cs[j].lat, cs[j].lon) < CoverageRadiusKm}
    IN  IF near = {} THEN density * CoverageArea
        ELSE cs[CHOOSE j \in near : \A k \in near : j <= k].pop

\* line 68, times D_max
Aqi(node, alat, alon, dmax) ==
    Max(AqiFloor * dmax, AqiBase * dmax - haversine(node.lat, node.lon, alat, alon) * AqiSpread)

\* line 77, times 2 * D_max
Score(coverage, aqi, dmax) == 2 * dmax * coverage - aqi

\* line 78
Scored(i, node, cs, density, alat, alon, dmax) ==
    LET coverage == Coverage(node, cs, density)
        aqi == Aqi(node, alat, alon, dmax)
    IN  [name |-> NodeName(i), lat |-> node.lat, lon |-> node.lon,
         coverage |-> coverage, aqi |-> aqi, score |-> Score(coverage, aqi, dmax)]

-----------------------------------------------------------------------------
(* Selection (lines 80-91) *)

\* the list objects of a run: results (line 65), its copy (line 82) and the
\* list built by the comprehension (lines 87-90)
ResultsList == "results"
CopiedList == "copy"
FilteredList == "filtered"
Lists == {ResultsList, CopiedList, FilteredList}
NoList == "none"

\* faulty variant: remaining_nodes = results, the same list object
CopyAlias(l) == l
\* results.copy(): a new list object
Copy(l) == CopiedList

\* faulty variants: <= 10, and no count at all
LoopGuardInclusive(sel, rem) == Len(sel) <= TargetCount /\ rem # <<>>
LoopGuardNoCount(sel, rem) == rem # <<>>
\* while len(selected_nodes) < 10 and remaining_nodes
LoopGuard(sel, rem) == Len(sel) < TargetCount /\ rem # <<>>

\* faulty variant: a descending sort that reverses the elements of equal score
SortDescUnstable(s) ==
    LET before(i) == {j \in DOMAIN s :
                        \/ s[j].score > s[i].score
                        \/ s[j].score = s[i].score /\ j > i}
    IN  [k \in 1..Len(s) |-> s[CHOOSE i \in DOMAIN s : Cardinality(before(i)) = k - 1]]
\* list.sort(key=score, reverse=True): a stable sort, so an element comes
\* after the elements of higher score and after the elements of equal score
\* that stood before it
SortDesc(s) ==
    LET before(i) == {j \in DOMAIN s :
                        \/ s[j].score > s[i].score
                        \/ s[j].score = s[i].score /\ j < i}
    IN  [k \in 1..Len(s) |-> s[CHOOSE i \in DOMAIN s : Cardinality(before(i)) = k - 1]]

\* faulty variants: >= 10, < 10, and > 20
KeepAtLeastRadius(best, node) ==
    haversine(best.lat, best.lon, node.lat, node.lon) >= ExclusionRadiusKm
KeepInverted(best, node) ==
    haversine(best.lat, best.lon, node.lat, node.lon) < ExclusionRadiusKm
KeepBeyondDiameter(best, node) ==
    haversine(best.lat, best.lon, node.lat, node.lon) > 2 * ExclusionRadiusKm
\* the condition of the comprehension (line 89)
Keep(best, node) ==
    haversine(best.lat, best.lon, node.lat, node.lon) > ExclusionRadiusKm

\* lines 87-90
Filtered(best, s) == SelectSeq(s, LAMBDA node : Keep(best, node))

-----------------------------------------------------------------------------
(* The script *)

RegionLats == {x \in LatGrid : lat_min <= x /\ x <= lat_max}
RegionLons == {y \in LonGrid : lon_min <= y /\ y <= lon_max}

\* sequences of length lo..hi over S
SeqsOf(S, lo, hi) == UNION {[1..n -> S] : n \in lo..hi}

\* the inputs of a run (lines 27-51).  The widgets of the centers and of the
\* anchor take values between the region's minimum and maximum (min_value,
\* max_value); nothing compares lat_min with lat_max or lon_min with lon_max.
\* The anchor is left at its default, the region's minimum corner; the
\* baseline AQI value (line 51) is read by nothing and is left out.
Init ==
    /\ lat_min = 0
    /\ lon_min = 0
    /\ lat_max \in LatGrid
    /\ lon_max \in LonGrid
    /\ \E n \in CenterCounts :
         \E pos \in [1..n -> {<<x, y>> \in LatGrid \X LonGrid : x <= lat_max /\ y <= lon_max}] :
           \E pop \in [1..n -> Populations] :
             centers = [i \in 1..n |-> [name |-> CityName(i - 1), lat |-> pos[i][1],
                                        lon |-> pos[i][2], pop |-> pop[i]]]
    /\ rural_density \in RuralDensities
    /\ aqi_base_lat = lat_min
    /\ aqi_base_lon = lon_min
    /\ nodes = <<>>
    /\ results = NoList
    /\ selected_nodes = <<>>
    /\ remaining_nodes = NoList
    /\ heap = [l \in Lists |-> <<>>]
    /\ rows = <<>>
    /\ pc = "input"

\* the button is pressed: lines 58-65
Optimize ==
    /\ pc = "input"
    /\ nodes' \in [1..NumNodes -> [lat : RegionLats, lon : RegionLons]]
    /\ results' = ResultsList
    /\ heap' = [heap EXCEPT ![ResultsList] = <<>>]
    /\ pc' = "score"
    /\ UNCHANGED <<inputs, selected_nodes, remaining_nodes, rows>>

\* one iteration of the scoring loop (lines 66-78); the division by D_max of
\* line 68 raises ZeroDivisionError when the region is a single point
ScoreNode ==
    /\ pc = "score"
    /\ Len(heap[results]) < Len(nodes)
    /\ LET i == Len(heap[results])
       IN  IF D_max = 0
           THEN /\ pc' = "error"
                /\ UNCHANGED heap
           ELSE /\ heap' = [heap EXCEPT ![results] =
                       Append(@, Scored(i, nodes[i + 1], centers, rural_density,
                                        aqi_base_lat, aqi_base_lon, D_max))]
                /\ UNCHANGED pc
    /\ UNCHANGED <<inputs, nodes, results, selected_nodes, remaining_nodes, rows>>

\* lines 81-82
StartSelect ==
    /\ pc = "score"
    /\ Len(heap[results]) = Len(nodes)
    /\ selected_nodes' = <<>>
    /\ remaining_nodes' = Copy(results)
    /\ heap' = [heap EXCEPT ![Copy(results)] = heap[results]]
    /\ pc' = "loop"
    /\ UNCHANGED <<inputs, nodes, results, rows>>

\* one iteration of the selection loop (lines 83-91): sort and pop change the
\* list remaining_nodes is bound to, the comprehension builds a new list
Round ==
    /\ pc = "loop"
    /\ LoopGuard(selected_nodes, heap[remaining_nodes])
    /\ LET sorted == SortDesc(heap[remaining_nodes])
           best_node == Head(sorted)
           popped == Tail(sorted)
       IN  /\ selected_nodes' = Append(selected_nodes, best_node)
           /\ heap' = [heap EXCEPT ![remaining_nodes] = popped,
                                   ![FilteredList] = Filtered(best_node, popped)]
           /\ remaining_nodes' = FilteredList
    /\ UNCHANGED <<inputs, nodes, results, rows, pc>>

\* the loop ends; one table row per selected node, in order (lines 93-98).
\* The numbers of a row are kept as computed (their fixed-point formatting
\* is not modelled).
Display ==
    /\ pc = "loop"
    /\ ~LoopGuard(selected_nodes, heap[remaining_nodes])
    /\ rows' = [k \in 1..Len(selected_nodes) |->
                   [name |-> selected_nodes[k].name, lat |-> selected_nodes[k].lat,
                    lon |-> selected_nodes[k].lon, coverage |-> selected_nodes[k].coverage,
                    aqi |-> selected_nodes[k].aqi, score |-> selected_nodes[k].score]]
    /\ pc' = "done"
    /\ UNCHANGED <<inputs, nodes, results, selected_nodes, remaining_nodes, heap>>

Next == Optimize \/ ScoreNode \/ StartSelect \/ Round \/ Display

Spec == Init /\ [][Next]_vars

-----------------------------------------------------------------------------
(* The selection loop over every scored list                               *)
(*                                                                         *)
(* SelectSpec starts where the scoring loop has ended (line 80) and draws  *)
(* the scored list itself from bounded sets: short lists of nodes anywhere *)
(* on the grid, and lists of WidePool nodes in a row, 16 km apart, which   *)
(* are long enough for the loop to reach its 10 selections.  The coverage  *)
(* of each node is drawn freely, so scores tie or differ in every order.   *)
(* The inputs of the run are fixed: the loop does not read them.           *)

NodeLists(maxLen) == SeqsOf([lat : LatGrid, lon : LonGrid], 1, maxLen)

WideNodes == [i \in 1..WidePool |-> [lat |-> 0, lon |-> 16 * (i - 1)]]

ScoredList(pos, cov, dmax) ==
    [i \in 1..Len(pos) |->
        [name |-> NodeName(i - 1), lat |-> pos[i].lat, lon |-> pos[i].lon,
         coverage |-> cov[i], aqi |-> AqiFloor * dmax,
         score |-> Score(cov[i], AqiFloor * dmax, dmax)]]

\* the state at line 80, the nodes at pos scored with the coverages cov
ScoringDone(pos, cov) ==
    /\ lat_min = 0
    /\ lon_min = 0
    /\ lat_max = 12
    /\ lon_max = 16 * (WidePool - 1)
    /\ centers = <<[name |-> CityName(0), lat |-> 0, lon |-> 0, pop |-> 1000]>>
    /\ rural_density = 165
    /\ aqi_base_lat = lat_min
    /\ aqi_base_lon = lon_min
    /\ nodes = pos
    /\ results = ResultsList
    /\ heap = [l \in Lists |->
                  IF l = ResultsList THEN ScoredList(pos, cov, D_max) ELSE <<>>]
    /\ selected_nodes = <<>>
    /\ remaining_nodes = NoList
    /\ rows = <<>>
    /\ pc = "score"

InitSelect ==
    \E pos \in NodeLists(MaxPool) \cup {WideNodes} :
        \E cov \in [1..Len(pos) -> Populations] : ScoringDone(pos, cov)

NextSelect == StartSelect \/ Round \/ Display

SelectSpec == InitSelect /\ [][NextSelect]_vars

\* FairSelectSpec: the script runs on to its end (the loop waits for nothing),
\* over the lists of SelectSpec that are shorter than MaxPool and the long
\* lists whose coverages repeat with period 2.
InitFair ==
    \E pos \in NodeLists(MaxPool - 1) \cup {WideNodes} :
        \E cov \in [1..Len(pos) -> Populations] :
            /\ Len(pos) = WidePool => \A i \in 3..Len(pos) : cov[i] = cov[i - 2]
            /\ ScoringDone(pos, cov)

FairSelectSpec == InitFair /\ [][NextSelect]_vars /\ WF_vars(NextSelect)

-----------------------------------------------------------------------------
(* Properties *)

Dist(a, b) == haversine(a.lat, a.lon, b.lat, b.lon)

Elems(s) == {s[i] : i \in DOMAIN s}

Last(s) == s[Len(s)]

\* the scored list and the working pool
ScoredNodes == IF results = NoList THEN <<>> ELSE heap[results]
Pool == IF remaining_nodes = NoList THEN <<>> ELSE heap[remaining_nodes]

Unselected == Elems(ScoredNodes) \ Elems(selected_nodes)

\* a step of the selection loop that selects a node
Selects == pc = "loop" /\ Len(selected_nodes') = Len(selected_nodes) + 1

\* C1: any two distinct selected sites are at least exclusionRadiusKm (10 km)
\* apart, in every state of the selection loop and in the final result.
C1_Diversity ==
    \A i, j \in 1..Len(selected_nodes) :
        i # j => Dist(selected_nodes[i], selected_nodes[j]) >= ExclusionRadiusKm

\* two sites are selected and a scored node was suppressed by one of them
C1_Witness ==
    /\ Len(selected_nodes) >= 2
    /\ \E c \in Unselected : \E s \in Elems(selected_nodes) : Dist(s, c) < ExclusionRadiusKm

\* C2 as stated: after each selection the candidates removed from the pool are
\* exactly the remaining candidates strictly less than 10 km from the selected
\* one; a candidate at exactly 10 km stays in the pool.
C2_RemovesStrictlyCloser ==
    [][Selects =>
        LET best == Last(selected_nodes')
        IN  \A c \in Elems(Pool) \ {best} :
                c \notin Elems(Pool') <=> Dist(best, c) < ExclusionRadiusKm]_vars

\* C2 amended: after each selection the candidates removed from the pool are
\* exactly the remaining candidates at most 10 km from the selected one; a
\* candidate at exactly 10 km is removed with them.
C2_RemovesWithinRadius ==
    [][Selects =>
        LET best == Last(selected_nodes')
        IN  \A c \in Elems(Pool) \ {best} :
                c \notin Elems(Pool') <=> Dist(best, c) <= ExclusionRadiusKm]_vars

\* a scored node exactly 10 km from a selected site, and closer to none, has
\* left the pool while another node is still in it
C2_Witness ==
    /\ pc = "loop"
    /\ Pool # <<>>
    /\ \E c \in Unselected :
         /\ c \notin Elems(Pool)
         /\ \E s \in Elems(selected_nodes) : Dist(s, c) = ExclusionRadiusKm
         /\ \A s \in Elems(selected_nodes) : Dist(s, c) >= ExclusionRadiusKm

\* C3: at most targetCount (10) sites are selected, the selected sites are
\* pairwise distinct, and no selected site is still in the pool.
C3_BoundedDistinct ==
    /\ Len(selected_nodes) <= TargetCount
    /\ \A i, j \in 1..Len(selected_nodes) : i # j => selected_nodes[i] # selected_nodes[j]
    /\ Elems(selected_nodes) \cap Elems(Pool) = {}

\* the loop has made its 10 selections and the pool still holds a node
C3_Witness ==
    /\ pc = "loop"
    /\ Len(selected_nodes) = TargetCount
    /\ Pool # <<>>

\* C4: the node selected in a round has a score no less than that of every
\* node in the pool at the start of the round, and is the first node of the
\* pool, in its order at the start of the round, that has the highest score.
C4_MaxScoreFirstOccurrence ==
    [][Selects =>
        LET best == Last(selected_nodes')
            top == {i \in 1..Len(Pool) : \A j \in 1..Len(Pool) : Pool[i].score >= Pool[j].score}
        IN  /\ \A j \in 1..Len(Pool) : best.score >= Pool[j].score
            /\ \E i \in top : best = Pool[i] /\ \A k \in top : i <= k]_vars

\* the first selected site shares its score with a later node of the scored
\* list and follows a node of lower score
C4_Witness ==
    /\ Len(selected_nodes) >= 1
    /\ \E i, j, k \in 1..Len(ScoredNodes) :
         /\ k < i /\ i < j
         /\ ScoredNodes[i] = selected_nodes[1]
         /\ ScoredNodes[j].score = ScoredNodes[i].score
         /\ ScoredNodes[k].score < ScoredNodes[i].score

\* the centers that are within 10 km of a scored node and strictly closer to it
\* than every other center
NearestCenters(r) ==
    {j \in 1..Len(centers) :
        /\ haversine(r.lat, r.lon, centers[j].lat, centers[j].lon) < CoverageRadiusKm
        /\ \A k \in 1..Len(centers) :
             k # j => haversine(r.lat, r.lon, centers[k].lat, centers[k].lon)
                        > haversine(r.lat, r.lon, centers[j].lat, centers[j].lon)}

\* C5: a candidate within 10 km of a center with population P, with no other
\* center closer to it, has coverage exactly P.
C5_NearestCenterCoverage ==
    \A r \in Elems(ScoredNodes) :
        \A j \in NearestCenters(r) : r.coverage = centers[j].pop

\* "Node-" followed by the zero-padded number k
DisplayName(k) == "Node-" \o Format02d(k)

\* C6 as stated: the k-th row of the table, the k-th selected site, is named
\* Node-k.
C6_NamedBySelectionOrder ==
    \A k \in 1..Len(rows) : rows[k].name = DisplayName(k)

\* C6 amended: the k-th row of the table is the k-th selected site, named
\* "Node-" followed by the zero-padded 1-based position of that site in the
\* scored list (the order in which the candidates were generated).
C6_NamedByGenerationOrder ==
    pc = "done" =>
        /\ Len(rows) = Len(selected_nodes)
        /\ \A k \in 1..Len(rows) :
             \E i \in 1..Len(ScoredNodes) :
                 /\ ScoredNodes[i] = selected_nodes[k]
                 /\ rows[k].name = DisplayName(i)

\* the table holds the second generated node above the first
C6_Witness ==
    /\ pc = "done"
    /\ Len(rows) >= 2
    /\ rows[1].name = DisplayName(2)
    /\ rows[2].name = DisplayName(1)

InvalidRegion == lat_min >= lat_max \/ lon_min >= lon_max

\* C7: with an invalid region an optimize run generates no candidate, selects
\* nothing and does not complete normally.
C7_InvalidRegionRejected ==
    InvalidRegion =>
        /\ nodes = <<>>
        /\ ScoredNodes = <<>>
        /\ selected_nodes = <<>>
        /\ pc # "done"

\* C8: the selection loop ends, after at most targetCount (10) rounds, and
\* every round leaves the pool strictly shorter than it found it.
C8_Terminates ==
    /\ <>(pc = "done")
    /\ [](Len(selected_nodes) <= TargetCount)
    /\ [][Selects => Len(Pool') < Len(Pool)]_vars

\* the loop has ended on its count of 10 with nodes left in the pool
C8_Witness ==
    /\ pc = "done"
    /\ Len(selected_nodes) = TargetCount
    /\ Len(Pool) >= 1

\* C9: from the end of scoring on, the scored list holds the same candidates
\* in the same order: no step of the selection changes it.
C9_ResultsUnchanged ==
    [][(pc = "score" /\ Len(ScoredNodes) = Len(nodes)) \/ pc = "loop"
          => results' = results /\ heap'[results'] = heap[results]]_vars

\* the selection has ended, the copy was sorted and popped, and the scored
\* list is whole, in the order of generation
C9_Witness ==
    /\ pc = "done"
    /\ Len(selected_nodes) >= 2
    /\ Len(ScoredNodes) = Len(nodes)
    /\ selected_nodes[1] # ScoredNodes[1]
    /\ heap[CopiedList] # ScoredNodes

\* C10 as stated: when the loop ends with fewer than 10 sites the pool is
\* empty and every scored candidate that was not selected is strictly less
\* than 10 km from a selected site, so that none could be added without two
\* sites being less than 10 km apart.
C10_ShortResultMaximal ==
    pc = "done" /\ Len(selected_nodes) < TargetCount =>
        /\ Pool = <<>>
        /\ \A c \in Unselected :
             \E s \in Elems(selected_nodes) : Dist(s, c) < ExclusionRadiusKm

\* C10 amended: when the loop ends with fewer than 10 sites the pool is empty
\* and every scored candidate that was not selected is at most 10 km from a
\* selected site.
C10_ShortResultSuppressed ==
    pc = "done" /\ Len(selected_nodes) < TargetCount =>
        /\ Pool = <<>>
        /\ \A c \in Unselected :
             \E s \in Elems(selected_nodes) : Dist(s, c) <= ExclusionRadiusKm

\* a short result whose only reason to leave a candidate out is a selected
\* site exactly 10 km from it
C10_Witness ==
    /\ pc = "done"
    /\ Len(selected_nodes) < TargetCount
    /\ \E c \in Unselected :
         \A s \in Elems(selected_nodes) : Dist(s, c) >= ExclusionRadiusKm

====
